---- MODULE Spec2Model ----
(***************************************************************************)
(* A model of the analysis pipeline of keycool/weibo-check:                *)
(* TrendAnalyzer.run (src/src/analyze_trends.py) with its response         *)
(* normalizer analyze_topics, the rule chain _fix_json and the report      *)
(* writer generate_html_report.                                            *)
(*                                                                         *)
(* Texts are TLA+ strings, characters are strings of length one.  The      *)
(* modelled alphabet is ASCII without the backslash, without capital       *)
(* letters and without '.', '+', '-': json escapes, NaN/Infinity and       *)
(* fractions or exponents of numbers do not occur in the texts drawn.      *)
(***************************************************************************)
EXTENDS Integers, Sequences, FiniteSets, TLC

(***************************************************************************)
(* Characters and the character classes of Python's str and re.            *)
(***************************************************************************)
\* the character at index i (1-based) of s, "" past either end
At(s, i) == IF i >= 1 /\ i <= Len(s) THEN SubSeq(s, i, i) ELSE ""

\* s[i:] of Python, with the 1-based index of the first character kept
From(s, i) == IF i > Len(s) THEN "" ELSE SubSeq(s, i, Len(s))

\* json.decoder.WHITESPACE: [ \t\n\r]*
JsonWS == {" ", "\t", "\n", "\r"}

\* str.isspace / the class \s of re on str: json's whitespace and more
PySpace == {" ", "\t", "\n", "\r", "\f"}

\* the class \d
Digits == {"0", "1", "2", "3", "4", "5", "6", "7", "8", "9"}

\* the lookahead class [a-zA-Z_\u4e00-\u9fff], on the modelled alphabet
KeyStart ==
    {"a", "b", "c", "d", "e", "f", "g", "h", "i", "j", "k", "l", "m", "n",
     "o", "p", "q", "r", "s", "t", "u", "v", "w", "x", "y", "z", "_",
     "A", "B", "C", "D", "E", "F", "G", "H", "I", "J", "K", "L", "M", "N",
     "O", "P", "Q", "R", "S", "T", "U", "V", "W", "X", "Y", "Z"}

\* characters json's strict mode refuses inside a string (code < 0x20)
Control == {"\t", "\n", "\r", "\f"}

DigitVal(c) ==
    CASE c = "0" -> 0 [] c = "1" -> 1 [] c = "2" -> 2 [] c = "3" -> 3
      [] c = "4" -> 4 [] c = "5" -> 5 [] c = "6" -> 6 [] c = "7" -> 7
      [] c = "8" -> 8 [] c = "9" -> 9

\* s.startswith(w, i-1)
StartsWithAt(s, i, w) ==
    /\ i >= 1
    /\ i + Len(w) - 1 <= Len(s)
    /\ SubSeq(s, i, i + Len(w) - 1) = w

startswith(s, w) == StartsWithAt(s, 1, w)

endswith(s, w) == Len(w) <= Len(s) /\ StartsWithAt(s, Len(s) - Len(w) + 1, w)

RECURSIVE lstrip(_)
lstrip(s) == IF Len(s) > 0 /\ At(s, 1) \in PySpace THEN lstrip(Tail(s)) ELSE s

RECURSIVE rstrip(_)
rstrip(s) ==
    IF Len(s) > 0 /\ At(s, Len(s)) \in PySpace
    THEN rstrip(SubSeq(s, 1, Len(s) - 1))
    ELSE s

\* str.strip()
strip(s) == rstrip(lstrip(s))

(***************************************************************************)
(* json.loads: the values and the recursive-descent decoder.               *)
(***************************************************************************)
JNum(n) == [t |-> "num", v |-> <<n>>]
JStr(s) == [t |-> "str", v |-> <<s>>]
JLit(w) == [t |-> w, v |-> <<>>]
JArr(items) == [t |-> "arr", v |-> items]
\* a dict: a function from its keys, so that the order of the keys is
\* immaterial and a repeated key keeps its last value
JObj(f) == [t |-> "obj", v |-> f]

EmptyDict == [k \in {} |-> JLit("null")]

\* JSONDecodeError inside the decoder
Fail == [ok |-> FALSE]
Ok(val, end) == [ok |-> TRUE, val |-> val, end |-> end]

RECURSIVE SkipWS(_, _)
SkipWS(s, i) == IF At(s, i) \in JsonWS THEN SkipWS(s, i + 1) ELSE i

\* the index of the quote that closes a string whose content starts at i,
\* 0 when the string is unterminated or holds a control character
RECURSIVE ScanString(_, _)
ScanString(s, i) ==
    IF i > Len(s) THEN 0
    ELSE IF At(s, i) = "\"" THEN i
    ELSE IF At(s, i) \in Control THEN 0
    ELSE ScanString(s, i + 1)

\* scanstring: i is the index after the opening quote
ParseString(s, i) ==
    LET q == ScanString(s, i)
    IN  IF q = 0 THEN Fail
        ELSE Ok(IF q = i THEN "" ELSE SubSeq(s, i, q - 1), q + 1)

\* the end of the digit run that starts at i
RECURSIVE ScanDigits(_, _)
ScanDigits(s, i) == IF At(s, i) \in Digits THEN ScanDigits(s, i + 1) ELSE i

RECURSIVE IntOf(_, _)
IntOf(s, acc) ==
    IF Len(s) = 0 THEN acc ELSE IntOf(Tail(s), 10 * acc + DigitVal(Head(s)))

\* NUMBER_RE, integer part: (0|[1-9]\d*)
ParseNumber(s, i) ==
    IF At(s, i) = "0" THEN Ok(JNum(0), i + 1)
    ELSE LET e == ScanDigits(s, i)
         IN  Ok(JNum(IntOf(SubSeq(s, i, e - 1), 0)), e)

RECURSIVE ParseValue(_, _)
RECURSIVE ParseArrayRest(_, _, _)
RECURSIVE ParseObjectRest(_, _, _)

\* JSONArray: i is the index after '['
ParseArray(s, i) ==
    LET j == SkipWS(s, i)
    IN  IF At(s, j) = "]" THEN Ok(JArr(<<>>), j + 1)
        ELSE ParseArrayRest(s, j, <<>>)

\* JSONObject: i is the index after '{'
ParseObject(s, i) ==
    LET j == SkipWS(s, i)
    IN  IF At(s, j) = "}" THEN Ok(JObj(EmptyDict), j + 1)
        ELSE ParseObjectRest(s, j, EmptyDict)

\* scan_once
ParseValue(s, i) ==
    LET c == At(s, i)
    IN  CASE c = "\"" ->
               LET r == ParseString(s, i + 1)
               IN  IF r.ok THEN Ok(JStr(r.val), r.end) ELSE Fail
          [] c = "{" -> ParseObject(s, i + 1)
          [] c = "[" -> ParseArray(s, i + 1)
          [] c = "n" /\ StartsWithAt(s, i, "null") -> Ok(JLit("null"), i + 4)
          [] c = "t" /\ StartsWithAt(s, i, "true") -> Ok(JLit("true"), i + 4)
          [] c = "f" /\ StartsWithAt(s, i, "false") -> Ok(JLit("false"), i + 5)
          [] c \in Digits -> ParseNumber(s, i)
          [] OTHER -> Fail

\* the loop of JSONArray: a value starts at i, acc holds the values so far
ParseArrayRest(s, i, acc) ==
    LET r == ParseValue(s, i)
    IN  IF ~r.ok THEN Fail
        ELSE LET j == SkipWS(s, r.end)
             IN  IF At(s, j) = "]" THEN Ok(JArr(Append(acc, r.val)), j + 1)
                 ELSE IF At(s, j) = ","
                      THEN ParseArrayRest(s, SkipWS(s, j + 1), Append(acc, r.val))
                      ELSE Fail

\* the loop of JSONObject: a key's opening quote is expected at i
ParseObjectRest(s, i, acc) ==
    IF At(s, i) # "\"" THEN Fail
    ELSE LET key == ParseString(s, i + 1)
         IN  IF ~key.ok THEN Fail
             ELSE LET k == SkipWS(s, key.end)
                  IN  IF At(s, k) # ":" THEN Fail
                      ELSE LET r == ParseValue(s, SkipWS(s, k + 1))
                           IN  IF ~r.ok THEN Fail
                               ELSE LET j == SkipWS(s, r.end)
                                        d == (key.val :> r.val) @@ acc
                                    IN  IF At(s, j) = "}" THEN Ok(JObj(d), j + 1)
                                        ELSE IF At(s, j) = ","
                                             THEN ParseObjectRest(s, SkipWS(s, j + 1), d)
                                             ELSE Fail

\* json.loads(s): JSONDecoder.decode, "Extra data" included
json_loads(s) ==
    LET r == ParseValue(s, SkipWS(s, 1))
    IN  IF ~r.ok THEN Fail
        ELSE IF SkipWS(s, r.end) # Len(s) + 1 THEN Fail
        ELSE r

(***************************************************************************)
(* re.sub for the patterns of _fix_json.  Every pattern has the shape       *)
(*     HEAD \s{minWs,} TAIL (?=[a-zA-Z_...])?                               *)
(* with HEAD one of a set of literal words (a character class is the set   *)
(* of its characters) and TAIL one character, or a run of it (",+").  TAIL *)
(* is never whitespace, so the greedy \s* never has to give back.          *)
(***************************************************************************)
RECURSIVE SkipSpace(_, _)
SkipSpace(s, i) == IF At(s, i) \in PySpace THEN SkipSpace(s, i + 1) ELSE i

RECURSIVE SkipRun(_, _, _)
SkipRun(s, i, c) == IF At(s, i) = c THEN SkipRun(s, i + 1, c) ELSE i

\* the match of rule R that starts at index i: [hit, head, end] with end the
\* index after the match
MatchAt(s, i, R) ==
    LET hs == {h \in R.heads : StartsWithAt(s, i, h)}
    IN  IF hs = {} THEN [hit |-> FALSE]
        ELSE LET h == CHOOSE w \in hs : TRUE
                 j == i + Len(h)
                 k == SkipSpace(s, j)
                 e == IF R.plus THEN SkipRun(s, k, R.tail) ELSE k + 1
             IN  IF /\ k - j >= R.minWs
                    /\ At(s, k) = R.tail
                    /\ (R.look => At(s, e) \in KeyStart)
                 THEN [hit |-> TRUE, head |-> h, end |-> e]
                 ELSE [hit |-> FALSE]

\* the replacement template, expanded for a match whose group 1 is head
Expand(R, head) ==
    CASE R.repl = "insert" -> head \o "," \o R.tail
      [] R.repl = "head" -> head
      [] R.repl = "tail" -> R.tail

\* re.sub(R, repl, s): leftmost non-overlapping matches, left to right
RECURSIVE SubFrom(_, _, _)
SubFrom(s, i, R) ==
    IF i > Len(s) THEN ""
    ELSE LET m == MatchAt(s, i, R)
         IN  IF m.hit THEN Expand(R, m.head) \o SubFrom(s, m.end, R)
             ELSE At(s, i) \o SubFrom(s, i + 1, R)

re_sub(R, s) == SubFrom(s, 1, R)

Rule(heads, minWs, tail, plus, look, repl) ==
    [heads |-> heads, minWs |-> minWs, tail |-> tail, plus |-> plus,
     look |-> look, repl |-> repl]

Literals == {"true", "false", "null"}

\* r'\}\s*\{' -> '},{'
RuleObjObj == Rule({"}"}, 0, "{", FALSE, FALSE, "insert")
\* r'\]\s*\[' -> '],['
RuleArrArr == Rule({"]"}, 0, "[", FALSE, FALSE, "insert")
\* RuleObjKey without its lookahead: r'\}\s*"' -> '},"'
RuleObjKey_AnyQuote == Rule({"}"}, 0, "\"", FALSE, FALSE, "insert")
\* r'\}\s*"(?=[a-zA-Z_\u4e00-\u9fff])' -> '},"'
RuleObjKey == Rule({"}"}, 0, "\"", FALSE, TRUE, "insert")
\* r'\]\s*"(?=[a-zA-Z_\u4e00-\u9fff])' -> '],"'
RuleArrKey == Rule({"]"}, 0, "\"", FALSE, TRUE, "insert")
\* r'"\s*"(?=[a-zA-Z_\u4e00-\u9fff])' -> '","'
RuleStrKey == Rule({"\""}, 0, "\"", FALSE, TRUE, "insert")
\* r'"\s+\"' -> '","'
RuleStrStr == Rule({"\""}, 1, "\"", FALSE, FALSE, "insert")
\* r'(\d)\s*"(?=[a-zA-Z_\u4e00-\u9fff])' -> r'\1,"'
RuleNumKey == Rule(Digits, 0, "\"", FALSE, TRUE, "insert")
\* r'(\d)\s*\{' -> r'\1,{'
RuleNumObj == Rule(Digits, 0, "{", FALSE, FALSE, "insert")
\* r'(true|false|null)\s*"' -> r'\1,"'
RuleLitStr == Rule(Literals, 0, "\"", FALSE, FALSE, "insert")
\* r'(true|false|null)\s*\{' -> r'\1,{'
RuleLitObj == Rule(Literals, 0, "{", FALSE, FALSE, "insert")
\* r',\s*\]' -> ']'
RuleTrailArr == Rule({","}, 0, "]", FALSE, FALSE, "tail")
\* r',\s*\}' -> '}'
RuleTrailObj == Rule({","}, 0, "}", FALSE, FALSE, "tail")
\* RuleCommas without the '+': r',\s*,' -> ',', one pair at a time
RuleCommas_Pair == Rule({","}, 0, ",", FALSE, FALSE, "head")
\* r',\s*,+' -> ','
RuleCommas == Rule({","}, 0, ",", TRUE, FALSE, "head")
\* r'\{\s*,' -> '{'
RuleLeadObj == Rule({"{"}, 0, ",", FALSE, FALSE, "head")
\* r'\[\s*,' -> '['
RuleLeadArr == Rule({"["}, 0, ",", FALSE, FALSE, "head")

\* the substitutions of _fix_json, in the order of the code
FixRules ==
    <<RuleObjObj, RuleArrArr, RuleObjKey, RuleArrKey, RuleStrKey, RuleStrStr,
      RuleNumKey, RuleNumObj, RuleLitStr, RuleLitObj, RuleTrailArr,
      RuleTrailObj, RuleCommas, RuleLeadObj, RuleLeadArr>>

RECURSIVE ApplyRules(_, _, _)
ApplyRules(rules, n, s) ==
    IF n > Len(rules) THEN s ELSE ApplyRules(rules, n + 1, re_sub(rules[n], s))

\* TrendAnalyzer._fix_json; .lstrip('\ufeff') removes nothing, the alphabet
\* holding no U+FEFF
_fix_json(text) == ApplyRules(FixRules, 1, strip(text))

(***************************************************************************)
(* The stages of TrendAnalyzer.analyze_topics as functions of the text.    *)
(***************************************************************************)
\* The grave accent cannot be written inside a TLA+ string (SANY's lexer
\* refuses it): the character '~' stands for it in every text of the model.
Fence == "~~~"
FenceJson == "~~~json"

\* strip_fence with line 109 cutting three characters instead of seven:
\* the word json of the marker stays in the text
strip_fence_keeps_json(raw) ==
    LET t0 == strip(raw)
        t1 == IF startswith(t0, Fence) THEN From(t0, 4) ELSE t0
        t2 == IF endswith(t1, Fence)
              THEN (IF Len(t1) = 3 THEN "" ELSE SubSeq(t1, 1, Len(t1) - 3))
              ELSE t1
    IN  strip(t2)

\* strip_fence with `elif` in place of the `if` of line 112: the trailing
\* fence is dropped only when no leading fence was
strip_fence_elif(raw) ==
    LET t0 == strip(raw)
    IN  IF startswith(t0, FenceJson) THEN strip(From(t0, 8))
        ELSE IF startswith(t0, Fence) THEN strip(From(t0, 4))
        ELSE IF endswith(t0, Fence) THEN strip(SubSeq(t0, 1, Len(t0) - 3))
        ELSE t0

\* lines 107-114: strip, drop a leading fence, drop a trailing fence, strip
strip_fence(raw) ==
    LET t0 == strip(raw)
        t1 == IF startswith(t0, FenceJson) THEN From(t0, 8)
              ELSE IF startswith(t0, Fence) THEN From(t0, 4)
              ELSE t0
        t2 == IF endswith(t1, Fence)
              THEN (IF Len(t1) = 3 THEN "" ELSE SubSeq(t1, 1, Len(t1) - 3))
              ELSE t1
    IN  strip(t2)

RECURSIVE IndexOf(_, _, _)
\* s.find(c, i-1) + 1: the first index >= i that holds c, 0 when none
IndexOf(s, c, i) ==
    IF i > Len(s) THEN 0 ELSE IF At(s, i) = c THEN i ELSE IndexOf(s, c, i + 1)

RECURSIVE LastIndexOf(_, _, _)
\* the last index <= i that holds c, 0 when none
LastIndexOf(s, c, i) ==
    IF i < 1 THEN 0 ELSE IF At(s, i) = c THEN i ELSE LastIndexOf(s, c, i - 1)

\* search_span with re.match in place of re.search: the span must start
\* the text
search_span_match(s) ==
    LET b == LastIndexOf(s, "]", Len(s))
    IN  IF At(s, 1) = "[" /\ b > 1 THEN [found |-> TRUE, span |-> SubSeq(s, 1, b)]
        ELSE [found |-> FALSE]

\* re.search(r'\[[\s\S]*\]', s): [found, span]
search_span(s) ==
    LET a == IndexOf(s, "[", 1)
        b == LastIndexOf(s, "]", Len(s))
    IN  IF a > 0 /\ b > a THEN [found |-> TRUE, span |-> SubSeq(s, a, b)]
        ELSE [found |-> FALSE]

(***************************************************************************)
(* File names, timestamps and configuration.                               *)
(***************************************************************************)
\* the characters of file names in code-point order, for str comparison
CharOrder == ".0123456789_abcdefghijklmnopqrstuvwxyz"

RECURSIVE LexLess(_, _)
\* a < b for two str
LexLess(a, b) ==
    IF Len(b) = 0 THEN FALSE
    ELSE IF Len(a) = 0 THEN TRUE
    ELSE IF Head(a) = Head(b) THEN LexLess(Tail(a), Tail(b))
    ELSE IndexOf(CharOrder, Head(a), 1) < IndexOf(CharOrder, Head(b), 1)

RECURSIVE replace(_, _, _)
\* str.replace(old, new) for a one-character old
replace(s, old, new) ==
    IF Len(s) = 0 THEN ""
    ELSE (IF Head(s) = old THEN new ELSE Head(s)) \o replace(Tail(s), old, new)

\* datetime.strftime('%Y%m%d_%H%M%S') of a clock reading
strftime_compact(t) == t.Y \o t.m \o t.d \o "_" \o t.H \o t.M \o t.S

\* datetime.strftime("%Y-%m-%d %H:%M:%S")
strftime_iso(t) ==
    t.Y \o "-" \o t.m \o "-" \o t.d \o " " \o t.H \o ":" \o t.M \o ":" \o t.S

\* timestamp.replace('-', '').replace(':', '').replace(' ', '_')
ts_clean(timestamp) == replace(replace(replace(timestamp, "-", ""), ":", ""), " ", "_")

RECURSIVE format(_, _, _)
\* str.format(source=..., timestamp=...) of a template given by its pieces
format(template, src, timestamp) ==
    IF Len(template) = 0 THEN ""
    ELSE (CASE Head(template) = "{source}" -> src
            [] Head(template) = "{timestamp}" -> timestamp
            [] OTHER -> Head(template))
         \o format(Tail(template), src, timestamp)

\* ConfigLoader.DEFAULT_CONFIG, the keys the analyzer reads
DefaultTopicCount == 20
GradeExcellent == 80
GradeGood == 60

DEFAULT_CONFIG ==
    [topic_count |-> DefaultTopicCount,
     report_filename_format |-> <<"weibo_analysis_", "{timestamp}", ".html">>,
     intermediate_filename |-> <<"weibo_analysis_", "{timestamp}", ".json">>,
     grades |-> [excellent |-> GradeExcellent, good |-> GradeGood]]

(***************************************************************************)
(* The data directory: a function from file names to contents.             *)
(***************************************************************************)
Sources == {"weibo", "douyin"}

\* the wall clock of the run
Clock == [Y |-> "2026", m |-> "01", d |-> "02", H |-> "03", M |-> "04", S |-> "05"]

\* raw-topics files a fetch may have left: {source}_raw_{timestamp}.json,
\* topics ranked 1..n in ingestion order
RawFile(src, stamp, n) ==
    [name |-> src \o "_raw_" \o stamp \o ".json",
     content |-> [kind |-> "raw", topics |-> [i \in 1..n |-> i]]]

MaxTopics == 2

RawFiles ==
    {RawFile("weibo", "20260101_000000", 1),
     RawFile("weibo", "20260101_120000", MaxTopics)}

DirOf(files) == [n \in {f.name : f \in files} |-> (CHOOSE f \in files : f.name = n).content]

\* glob_raw with the pattern "*_raw_*.json": the source is not looked at
glob_raw_any_source(dir, src) ==
    {n \in DOMAIN dir :
        /\ \E i \in 1..Len(n) : StartsWithAt(n, i, "_raw_")
        /\ endswith(n, ".json")}

\* Path.glob(f"{source}_raw_*.json")
glob_raw(dir, src) ==
    {n \in DOMAIN dir :
        /\ startswith(n, src \o "_raw_")
        /\ endswith(n, ".json")
        /\ Len(n) >= Len(src \o "_raw_") + Len(".json")}

\* latest without reverse=True: sorted(files)[0], the smallest name
earliest(files) == CHOOSE n \in files : \A o \in files : o = n \/ LexLess(n, o)

\* sorted(files, reverse=True)[0]
latest(files) == CHOOSE n \in files : \A o \in files : o = n \/ LexLess(o, n)

(***************************************************************************)
(* generate_html_report: what the page shows.                              *)
(***************************************************************************)
\* dict.get(key, default) on a parsed object
Get(item, key, default) == IF key \in DOMAIN item.v THEN item.v[key] ELSE default

\* a value Python orders against an int: int, and bool as 0/1
Ordered(v) == v.t \in {"num", "true", "false"}
NumOf(v) == IF v.t = "num" THEN v.v[1] ELSE IF v.t = "true" THEN 1 ELSE 0

\* `for a in analysis`: the items a list yields; a dict yields its keys and a
\* str its characters, which have no .get
Iterable(analysis) == analysis.t \in {"arr", "obj", "str"}
Items(analysis) == IF analysis.t = "arr" THEN analysis.v ELSE <<>>

\* bool(v) of Python
Truthy(v) ==
    CASE v.t = "num" -> v.v[1] # 0
      [] v.t = "str" -> v.v[1] # ""
      [] v.t = "arr" -> Len(v.v) > 0
      [] v.t = "obj" -> DOMAIN v.v # {}
      [] OTHER -> v.t = "true"

\* one card renders: total_score is ordered against the thresholds,
\* product_idea has .get, and a truthy scores supports `key in scores`
CardRenders(item) ==
    /\ item.t = "obj"
    /\ Ordered(Get(item, "total_score", JNum(0)))
    /\ Get(item, "product_idea", JObj(EmptyDict)).t = "obj"
    /\ LET scores == Get(item, "scores", JObj(EmptyDict))
       IN  Truthy(scores) => scores.t \in {"obj", "arr", "str"}

\* no TypeError or AttributeError in lines 225-228, 379-409 and 440
Renderable(analysis) ==
    /\ Iterable(analysis)
    /\ analysis.t = "obj" => DOMAIN analysis.v = {}
    /\ analysis.t = "str" => analysis.v[1] = ""
    /\ \A i \in 1..Len(Items(analysis)) : CardRenders(Items(analysis)[i])

Score(item) == NumOf(Get(item, "total_score", JNum(0)))

\* lines 225-228: the summary counts, by the configured grades
Summary(analysis, grades) ==
    LET items == Items(analysis)
        excellent == Cardinality({i \in 1..Len(items) : Score(items[i]) >= grades.excellent})
        good == Cardinality({i \in 1..Len(items) :
                    grades.good <= Score(items[i]) /\ Score(items[i]) < grades.excellent})
    IN  [excellent |-> excellent, good |-> good,
         average |-> Len(items) - excellent - good]

\* line 381: the card's class, by the fixed 80 and 60
CardExcellent == 80
CardGood == 60
grade_class(total_score) ==
    IF total_score >= CardExcellent THEN "excellent"
    ELSE IF total_score >= CardGood THEN "good" ELSE ""

\* lines 230-418: the page, as what it holds
html_content(analysis, timestamp, src, grades) ==
    [source |-> src, timestamp |-> timestamp,
     summary |-> Summary(analysis, grades),
     cards |-> [i \in 1..Len(Items(analysis)) |->
                  [class |-> grade_class(Score(Items(analysis)[i])),
                   rank |-> Get(Items(analysis)[i], "rank", JStr("?")),
                   total_score |-> Score(Items(analysis)[i])]]]

(***************************************************************************)
(* The responses the completion endpoint may give: a body of at most       *)
(* MaxParts fragments, bare or inside a markdown fence.                    *)
(***************************************************************************)
MaxParts == 3

Parts == {"[", "]", ",", "\"", "x", "[1]", "{\"rank\":1}", "{\"rank\":2}"}

RECURSIVE Concats(_)
\* the concatenations of at most n parts
Concats(n) ==
    IF n = 0 THEN {""}
    ELSE LET shorter == Concats(n - 1)
         IN  shorter \cup {b \o p : b \in shorter, p \in Parts}

Bodies == Concats(MaxParts)

Wrappers == {"none", "json", "bare"}

\* the body as the endpoint wraps it
Wrap(w, body) ==
    CASE w = "none" -> body
      [] w = "json" -> FenceJson \o "\n" \o body \o "\n" \o Fence
      [] w = "bare" -> Fence \o "\n" \o body \o "\n" \o Fence

\* array texts with one defect each, of the kinds the repair rules are
\* written for: records as the prompt asks for them, a title that ends in
\* a literal token among them
Records ==
    {"{\"rank\":1,\"title\":\"A\"}",
     "{\"rank\":2,\"title\":\"B\"}",
     "{\"title\":\"true\"}"}

Gaps == {"", " "}

\* two records with no comma between them
AdjacentObjects == {"[" \o r1 \o g \o r2 \o "]" : r1 \in Records, r2 \in Records, g \in Gaps}

QuotedWords == {"\"extra\"", "\"_x\"", "\"1x\""}

\* a record, then a quoted string with no comma between them
ObjectThenString == {"[" \o r \o g \o q \o "]" : r \in Records, g \in Gaps, q \in QuotedWords}

Elements == {"1,2,3", "\"a\"", "\"true\""} \cup Records

\* a comma before the closing bracket or brace
TrailingComma ==
    {"[" \o e \o "," \o g \o "]" : e \in Elements, g \in Gaps}
    \cup {"[{\"rank\":1," \o g \o "}]" : g \in Gaps}

\* a comma written twice or more
RepeatedComma == {"[1,,2]", "[1,,,2]", "[1, ,2]", "[1,,2,,3]"}

Defective == AdjacentObjects \cup ObjectThenString \cup TrailingComma \cup RepeatedComma

Responses == {Wrap(w, b) : w \in Wrappers, b \in Bodies} \cup Defective

(***************************************************************************)
(* TrendAnalyzer.run as a state machine.                                   *)
(***************************************************************************)
VARIABLES
    source,         \* self.source
    config,         \* self.config
    dataDir,        \* the data directory: file name -> content
    pc,             \* where the run stands
    topics,         \* the topics sent to the endpoint (their ranks)
    calls,          \* completion calls made
    response,       \* message.content[0].text as received
    response_text,  \* the local response_text, fence-stripped
    extracted,      \* match.group(), "" before the search or without a match
    fixed,          \* fixed_extracted / fixed_text
    analysis,       \* what analyze_topics returned
    stages,         \* the parsing stages run so far, with their outcome
    exc,            \* the exception that reached the handler of run
    rc,             \* the value run returned
    probe           \* a function of the code applied on its own: name, argument, result

vars == <<source, config, dataDir, pc, topics, calls, response, response_text,
          extracted, fixed, analysis, stages, exc, rc, probe>>

NoValue == [t |-> "none", v |-> <<>>]
NoExc == [type |-> "none"]
NoProbe == [fn |-> "none"]

Init ==
    /\ source \in Sources
    /\ config = DEFAULT_CONFIG
    /\ dataDir \in {DirOf(fs) : fs \in SUBSET RawFiles}
    /\ pc = "start"
    /\ topics = <<>>
    /\ calls = 0
    /\ response = ""
    /\ response_text = ""
    /\ extracted = ""
    /\ fixed = ""
    /\ analysis = NoValue
    /\ stages = <<>>
    /\ exc = NoExc
    /\ rc = -1
    /\ probe = NoProbe

\* the handler of run with `except FileNotFoundError` alone: any other
\* exception leaves run, which returns nothing
Caught_FileNotFoundOnly(e) ==
    /\ exc' = e
    /\ rc' = IF e.type = "FileNotFoundError" THEN 1 ELSE -1
    /\ pc' = "done"

\* lines 455-457: the handler of run
Caught(e) ==
    /\ exc' = e
    /\ rc' = 1
    /\ pc' = "done"

\* lines 437 and 45-53, then 57-61: find the latest raw file and load it
GetLatestDataFile ==
    /\ pc = "start"
    /\ LET files == glob_raw(dataDir, source)
       IN  IF files = {}
           THEN /\ Caught([type |-> "FileNotFoundError"])
                /\ UNCHANGED topics
           ELSE /\ topics' = LET all == dataDir[latest(files)].topics
                             IN  SubSeq(all, 1, IF config.topic_count < Len(all)
                                                THEN config.topic_count ELSE Len(all))
                /\ pc' = "call"
                /\ UNCHANGED <<exc, rc>>
    /\ UNCHANGED <<source, config, dataDir, calls, response, response_text,
                   extracted, fixed, analysis, stages, probe>>

\* lines 99-106: the completion call answers
CallCompletion ==
    /\ pc = "call"
    /\ \E r \in Responses : response' = r
    /\ calls' = calls + 1
    /\ pc' = "strict"
    /\ UNCHANGED <<source, config, dataDir, topics, response_text, extracted,
                   fixed, analysis, stages, exc, rc, probe>>

\* lines 99-106: the completion call raises (network, API error, no content)
CallFails ==
    /\ pc = "call"
    /\ calls' = calls + 1
    /\ Caught([type |-> "APIError"])
    /\ UNCHANGED <<source, config, dataDir, topics, response, response_text,
                   extracted, fixed, analysis, stages, probe>>

\* analyze_topics returns val to run (line 439)
Return(val) ==
    /\ analysis' = val
    /\ pc' = "report"

\* StrictParse without the return of line 117: the parsed value is kept
\* and the next stage runs all the same
StrictParse_FallsThrough ==
    /\ pc = "strict"
    /\ LET text == strip_fence(response)
           r == json_loads(text)
       IN  /\ response_text' = text
           /\ pc' = "extract"
           /\ IF r.ok
              THEN /\ analysis' = r.val
                   /\ stages' = Append(stages, "strict:ok")
              ELSE /\ stages' = Append(stages, "strict:fail")
                   /\ UNCHANGED analysis
    /\ UNCHANGED <<source, config, dataDir, topics, calls, response, extracted,
                   fixed, exc, rc, probe>>

\* lines 107-121: fence stripping and the strict parse
StrictParse ==
    /\ pc = "strict"
    /\ LET text == strip_fence(response)
           r == json_loads(text)
       IN  /\ response_text' = text
           /\ IF r.ok
              THEN /\ Return(r.val)
                   /\ stages' = Append(stages, "strict:ok")
              ELSE /\ pc' = "extract"
                   /\ stages' = Append(stages, "strict:fail")
                   /\ UNCHANGED analysis
    /\ UNCHANGED <<source, config, dataDir, topics, calls, response, extracted,
                   fixed, exc, rc, probe>>

\* ExtractParse without the direct parse of lines 131-132: a span found
\* goes to the repair at once
ExtractParse_RepairsAtOnce ==
    /\ pc = "extract"
    /\ LET m == search_span(response_text)
       IN  IF ~m.found
           THEN /\ pc' = "repair_text"
                /\ stages' = Append(stages, "extract:none")
                /\ UNCHANGED extracted
           ELSE /\ extracted' = m.span
                /\ pc' = "repair_extracted"
                /\ stages' = Append(stages, "extract:fail")
    /\ UNCHANGED <<source, config, dataDir, topics, calls, response,
                   response_text, fixed, analysis, exc, rc, probe>>

\* lines 124-135: search the bracket span and parse it
ExtractParse ==
    /\ pc = "extract"
    /\ LET m == search_span(response_text)
       IN  IF ~m.found
           THEN /\ pc' = "repair_text"
                /\ stages' = Append(stages, "extract:none")
                /\ UNCHANGED <<extracted, analysis>>
           ELSE /\ extracted' = m.span
                /\ IF json_loads(m.span).ok
                   THEN /\ Return(json_loads(m.span).val)
                        /\ stages' = Append(stages, "extract:ok")
                   ELSE /\ pc' = "repair_extracted"
                        /\ stages' = Append(stages, "extract:fail")
                        /\ UNCHANGED analysis
    /\ UNCHANGED <<source, config, dataDir, topics, calls, response,
                   response_text, fixed, exc, rc, probe>>

\* lines 137-144 (candidate: the span) and 158-162 (candidate: the text)
Repair(at, candidate, next) ==
    /\ pc = at
    /\ LET f == _fix_json(candidate)
           r == json_loads(f)
       IN  /\ fixed' = f
           /\ IF r.ok
              THEN /\ Return(r.val)
                   /\ stages' = Append(stages, "repair:ok")
              ELSE /\ pc' = next
                   /\ stages' = Append(stages, "repair:fail")
                   /\ UNCHANGED analysis
    /\ UNCHANGED <<source, config, dataDir, topics, calls, response,
                   response_text, extracted, exc, rc, probe>>

\* RepairExtracted without the raise of line 155: a span that stays
\* unparsable falls through to the repair of the whole text
RepairExtracted_FallsThrough == Repair("repair_extracted", extracted, "repair_text")

RepairExtracted == Repair("repair_extracted", extracted, "debug_extracted")

RepairText == Repair("repair_text", response_text, "debug_text")

\* the name of the debug artifact (lines 146 and 164)
debug_file == "debug_json_" \o strftime_compact(Clock) \o ".txt"

\* lines 148-153: the three blocks (the headings are Chinese in the code)
DebugExtracted ==
    "=== response ===\n" \o response_text
    \o "\n\n=== extracted json ===\n" \o extracted
    \o "\n\n=== fixed json ===\n" \o fixed

\* lines 166-169: the two blocks
DebugText ==
    "=== response ===\n" \o response_text
    \o "\n\n=== fixed text ===\n" \o fixed

\* lines 146-155 and 164-171: write the artifact, then raise e3 / e4
WriteDebug(at, content, err) ==
    /\ pc = at
    /\ dataDir' = (debug_file :> [kind |-> "debug", text |-> content]) @@ dataDir
    /\ stages' = Append(stages, "debug")
    /\ Caught([type |-> "JSONDecodeError", from |-> err])
    /\ UNCHANGED <<source, config, topics, calls, response, response_text,
                   extracted, fixed, analysis, probe>>

WriteDebugExtracted == WriteDebug("debug_extracted", DebugExtracted, "e3")

WriteDebugText == WriteDebug("debug_text", DebugText, "e4")

\* line 147 or 165: open() raises (directory not writable, disk full); the
\* OSError leaves the except clause in place of e3 / e4
WriteDebugFails ==
    /\ pc \in {"debug_extracted", "debug_text"}
    /\ stages' = Append(stages, "debug")
    /\ Caught([type |-> "OSError", from |-> "debug"])
    /\ UNCHANGED <<source, config, dataDir, topics, calls, response,
                   response_text, extracted, fixed, analysis, probe>>

\* line 442 and 421
timestamp == strftime_iso(Clock)
report_filename == format(config.report_filename_format, source, ts_clean(timestamp))
index_filename == "index_" \o source \o ".html"
json_filename == format(config.intermediate_filename, source, ts_clean(timestamp))

Page == html_content(analysis, timestamp, source, config.grades)

\* lines 440-425: len(analysis), the page is rendered, the report written
GenerateReport ==
    /\ pc = "report"
    /\ IF ~Renderable(analysis)
       THEN /\ Caught([type |-> "TypeError"])
            /\ UNCHANGED dataDir
       ELSE /\ dataDir' = (report_filename :> [kind |-> "html", page |-> Page]) @@ dataDir
            /\ pc' = "index"
            /\ UNCHANGED <<exc, rc>>
    /\ UNCHANGED <<source, config, topics, calls, response, response_text,
                   extracted, fixed, analysis, stages, probe>>

\* lines 427-432: the index page
WriteIndex ==
    /\ pc = "index"
    /\ dataDir' = (index_filename :> [kind |-> "html", page |-> Page]) @@ dataDir
    /\ pc' = "json"
    /\ UNCHANGED <<source, config, topics, calls, response, response_text,
                   extracted, fixed, analysis, stages, exc, rc, probe>>

\* lines 446-454: the analysis JSON, then return 0
WriteJson ==
    /\ pc = "json"
    /\ dataDir' = (json_filename :> [kind |-> "json", value |-> analysis]) @@ dataDir
    /\ rc' = 0
    /\ pc' = "done"
    /\ UNCHANGED <<source, config, topics, calls, response, response_text,
                   extracted, fixed, analysis, stages, exc, probe>>

\* open() or write() of a report artifact raises: nothing is written
WriteFails ==
    /\ pc \in {"report", "index", "json"}
    /\ pc = "report" => Renderable(analysis)
    /\ Caught([type |-> "OSError", from |-> pc])
    /\ UNCHANGED <<source, config, dataDir, topics, calls, response,
                   response_text, extracted, fixed, analysis, stages, probe>>

Next ==
    \/ GetLatestDataFile
    \/ CallCompletion
    \/ CallFails
    \/ StrictParse
    \/ ExtractParse
    \/ RepairExtracted
    \/ RepairText
    \/ WriteDebugExtracted
    \/ WriteDebugText
    \/ WriteDebugFails
    \/ GenerateReport
    \/ WriteIndex
    \/ WriteJson
    \/ WriteFails

Spec == Init /\ [][Next]_vars

(***************************************************************************)
(* Properties of the run.                                                  *)
(***************************************************************************)
\* needle in hay
Contains(hay, needle) ==
    \/ Len(needle) = 0
    \/ \E i \in 1..Len(hay) : StartsWithAt(hay, i, needle)

\* analyze_topics has ended, by a return or by an exception
Parsed == pc \in {"report", "index", "json"} \/ (pc = "done" /\ stages # <<>>)

DebugFiles == {n \in DOMAIN dataDir : dataDir[n].kind = "debug"}

ReportSet == {report_filename, index_filename, json_filename}

ReportArtifacts == {n \in DOMAIN dataDir : dataDir[n].kind \in {"html", "json"}}

\* the data directory holds no raw-topics file of the source
NoRawFor(src) == \A n \in DOMAIN dataDir : ~startswith(n, src \o "_raw_")

HasStage(e) == \E i \in 1..Len(stages) : stages[i] = e

StageRank(e) ==
    CASE e \in {"strict:ok", "strict:fail"} -> 1
      [] e \in {"extract:ok", "extract:fail", "extract:none"} -> 2
      [] e \in {"repair:ok", "repair:fail"} -> 3
      [] e = "debug" -> 4

Succeeded(e) == e \in {"strict:ok", "extract:ok", "repair:ok"}

\* C1: the stages of analyze_topics run in the order strict parse, array
\* extraction, rule-based repair, debug file; a stage runs only after every
\* earlier one failed; and whenever the fence-stripped text parses strictly,
\* the strict stage is the only one that ran, its parse is the value
\* returned, and no span was extracted, no text repaired, no debug file
\* written.
C1_StagePrecedence ==
    /\ \A i \in 1..Len(stages) : StageRank(stages[i]) = i
    /\ \A i \in 1..(Len(stages) - 1) : ~Succeeded(stages[i])
    /\ (stages # <<>> /\ json_loads(strip_fence(response)).ok) =>
          /\ stages = <<"strict:ok">>
          /\ analysis = json_loads(strip_fence(response)).val
          /\ extracted = ""
          /\ fixed = ""
          /\ DebugFiles = {}

\* a fenced response whose strict parse succeeded, the run completed
C1_StrictReturned ==
    /\ pc = "done"
    /\ rc = 0
    /\ stages = <<"strict:ok">>
    /\ response # response_text

\* the bodies that are valid JSON array texts
ValidArrayTexts == {b \in Bodies : json_loads(b).ok /\ json_loads(b).val.t = "arr"}

\* C2: for every valid JSON array text T, the response T, T inside a
\* ```json fence and T inside a bare ``` fence are all returned by the strict
\* stage, with the strict parse of T as the value.
C2_FenceIdempotence ==
    Parsed =>
        \A T \in ValidArrayTexts, w \in Wrappers :
            response = Wrap(w, T) =>
                /\ stages = <<"strict:ok">>
                /\ analysis = json_loads(T).val

\* a one-record array inside a ```json fence went through the whole run
C2_FencedArrayReturned ==
    /\ pc = "done"
    /\ rc = 0
    /\ response = Wrap("json", "[{\"rank\":1}]")
    /\ analysis = JArr(<<JObj("rank" :> JNum(1))>>)

\* the response is prose without brackets, a bracket span, prose without
\* brackets: the span runs from the first '[' to the last ']'
HasSpan(s) == IndexOf(s, "[", 1) > 0 /\ LastIndexOf(s, "]", Len(s)) > IndexOf(s, "[", 1)
SpanOf(s) == SubSeq(s, IndexOf(s, "[", 1), LastIndexOf(s, "]", Len(s)))
ProseSpanProse == HasSpan(response) /\ json_loads(SpanOf(response)).ok

C5_DebugArtifact ==
    (pc = "done" /\ exc.type = "JSONDecodeError") =>
        /\ Cardinality(DebugFiles) = 1
        /\ \A n \in DebugFiles : Contains(dataDir[n].text, response)

\* C6: once the debug write is reached, the exception that reaches the
\* caller is the structural-parse error of the final parse.
C6_DebugWriteNeverMasks ==
    (pc = "done" /\ HasStage("debug")) => exc.type = "JSONDecodeError"

\* C7: at the end of a run either the HTML report, the index page and the
\* analysis JSON all exist, or none of them does.
C7_AllOrNothing ==
    pc = "done" =>
        \/ ReportSet \cap DOMAIN dataDir = {}
        \/ ReportSet \subseteq DOMAIN dataDir

\* C8: a finished run returned 0 or 1; it returned 0 exactly when the input
\* file was found, the completion call answered, the parse gave a value and
\* report, index and JSON were written; every exception gave 1.
C8_ExitCode ==
    pc = "done" =>
        /\ rc \in {0, 1}
        /\ rc = 0 <=> /\ ~NoRawFor(source)
                      /\ calls = 1
                      /\ stages # <<>>
                      /\ analysis # NoValue
                      /\ ReportSet \subseteq DOMAIN dataDir
        /\ exc # NoExc => rc = 1

\* a run that failed in the index write, after the report was written
C8_WriteFailureReturnedOne ==
    /\ pc = "done"
    /\ rc = 1
    /\ exc = [type |-> "OSError", from |-> "index"]
    /\ report_filename \in DOMAIN dataDir

\* C9: with no raw-topics file of the requested source in the data
\* directory, no completion call is made, no report artifact is written, and
\* the run ends with status 1.
C9_MissingInput ==
    NoRawFor(source) =>
        /\ calls = 0
        /\ ReportArtifacts = {}
        /\ Parsed = FALSE
        /\ pc = "done" => (rc = 1 /\ exc.type = "FileNotFoundError")

\* the directory holds raw files of another source only; the run ended
C9_NoFileForSource ==
    /\ pc = "done"
    /\ NoRawFor(source)
    /\ DOMAIN dataDir # {}
    /\ rc = 1

\* C10: a list returned by analyze_topics is no longer than the list of
\* topics sent, and every rank in it is the rank of a topic sent.
C10_RanksWithinInput ==
    (pc \in {"report", "index", "json", "done"} /\ analysis.t = "arr") =>
        /\ Len(analysis.v) <= Len(topics)
        /\ \A i \in 1..Len(analysis.v) :
              (analysis.v[i].t = "obj" /\ "rank" \in DOMAIN analysis.v[i].v) =>
                  \E j \in 1..Len(topics) : analysis.v[i].v["rank"] = JNum(topics[j])

(***************************************************************************)
(* _fix_json applied on its own to texts of at most MaxFixParts fragments. *)
(***************************************************************************)
MaxFixParts == 5

FixParts == {"[", "]", "{", "}", ",", "\"", " ", "1"}

RECURSIVE FixConcats(_)
FixConcats(n) ==
    IF n = 0 THEN {""}
    ELSE LET shorter == FixConcats(n - 1)
         IN  shorter \cup {b \o p : b \in shorter, p \in FixParts}

FixInputs == FixConcats(MaxFixParts)

Idle ==
    /\ source = "weibo"
    /\ config = DEFAULT_CONFIG
    /\ dataDir = DirOf({})
    /\ pc = "idle"
    /\ topics = <<>>
    /\ calls = 0
    /\ response = ""
    /\ response_text = ""
    /\ extracted = ""
    /\ fixed = ""
    /\ analysis = NoValue
    /\ stages = <<>>
    /\ exc = NoExc
    /\ rc = -1

pipeVars == <<source, config, dataDir, pc, topics, calls, response,
              response_text, extracted, fixed, analysis, stages, exc, rc>>

InitFix ==
    /\ Idle
    /\ probe \in {[fn |-> "_fix_json", arg |-> t, done |-> FALSE, ret |-> ""] :
                    t \in FixInputs}

\* fixed = self._fix_json(text)
ApplyFix ==
    /\ probe.fn = "_fix_json"
    /\ ~probe.done
    /\ probe' = [probe EXCEPT !.ret = _fix_json(probe.arg), !.done = TRUE]
    /\ UNCHANGED pipeVars

NextFix == ApplyFix

SpecFix == InitFix /\ [][NextFix]_vars

\* C4: for every valid JSON array text, the text _fix_json returns parses,
\* and to the same value.
C4_FixKeepsValidArrays ==
    (probe.fn = "_fix_json" /\ probe.done) =>
        LET before == json_loads(probe.arg)
        IN  (before.ok /\ before.val.t = "arr") =>
                /\ json_loads(probe.ret).ok
                /\ json_loads(probe.ret).val = before.val

\* C11: whenever analyze_topics returns a value, from the strict parse, the
\* parse of the extracted span or the parse of the repaired text, that
\* value is a list.
C11_ReturnsList ==
    analysis # NoValue => analysis.t = "arr"

(***************************************************************************)
(* analyze_topics invoked a second time on the response text of the first  *)
(* invocation, in the data directory the first one left.                   *)
(***************************************************************************)
\* how the invocation of analyze_topics ended: the value returned, or the
\* exception that left it
Outcome ==
    IF analysis # NoValue THEN [kind |-> "return", val |-> analysis]
    ELSE [kind |-> "raise", exc |-> exc]

\* lines 105-171 entered again with the same message.content[0].text: the
\* locals are fresh, the data directory is the one the first call left
Again ==
    /\ probe = NoProbe
    /\ stages # <<>>
    /\ pc \in {"report", "done"}
    /\ probe' = [fn |-> "analyze_topics", arg |-> response, outcome |-> Outcome]
    /\ pc' = "strict"
    /\ response_text' = ""
    /\ extracted' = ""
    /\ fixed' = ""
    /\ analysis' = NoValue
    /\ stages' = <<>>
    /\ exc' = NoExc
    /\ rc' = -1
    /\ UNCHANGED <<source, config, dataDir, topics, calls, response>>

NextTwice ==
    \/ GetLatestDataFile
    \/ CallCompletion
    \/ StrictParse
    \/ ExtractParse
    \/ RepairExtracted
    \/ RepairText
    \/ WriteDebugExtracted
    \/ WriteDebugText
    \/ WriteDebugFails
    \/ Again

SpecTwice == Init /\ [][NextTwice]_vars

\* C12: two invocations of analyze_topics on the same response text end the
\* same way: both return the same value, or both raise the same
\* structural-parse error; the debug file is the only difference allowed.
C12_Deterministic ==
    (probe.fn = "analyze_topics" /\ stages # <<>> /\ pc \in {"report", "done"}) =>
        Outcome = probe.outcome

(***************************************************************************)
(* _fix_json applied on its own to texts that also hold a literal token    *)
(* and a letter, of at most MaxLitParts fragments.                         *)
(***************************************************************************)
MaxLitParts == 3

LitParts == {"[", "]", "{", "}", ",", "\"", " ", "1", "true", "a"}

RECURSIVE LitConcats(_)
LitConcats(n) ==
    IF n = 0 THEN {""}
    ELSE LET shorter == LitConcats(n - 1)
         IN  shorter \cup {b \o p : b \in shorter, p \in LitParts}

LitInputs == LitConcats(MaxLitParts)

InitLit ==
    /\ Idle
    /\ probe \in {[fn |-> "_fix_json", arg |-> t, done |-> FALSE, ret |-> ""] :
                    t \in LitInputs}

SpecLit == InitLit /\ [][NextFix]_vars

\* the rules a to m as the specification words them, whitespace allowed
\* between the two tokens of a rule as in the code: the rules c, d, e, g
\* and i fire only when the quote is followed by a letter or an underscore
RulesAsSpecified ==
    <<Rule({"}"}, 0, "{", FALSE, FALSE, "insert"),
      Rule({"]"}, 0, "[", FALSE, FALSE, "insert"),
      Rule({"}"}, 0, "\"", FALSE, TRUE, "insert"),
      Rule({"]"}, 0, "\"", FALSE, TRUE, "insert"),
      Rule({"\""}, 0, "\"", FALSE, TRUE, "insert"),
      Rule({"\""}, 1, "\"", FALSE, FALSE, "insert"),
      Rule(Digits, 0, "\"", FALSE, TRUE, "insert"),
      Rule(Digits, 0, "{", FALSE, FALSE, "insert"),
      Rule(Literals, 0, "\"", FALSE, TRUE, "insert"),
      Rule(Literals, 0, "{", FALSE, FALSE, "insert"),
      Rule({","}, 0, "]", FALSE, FALSE, "tail"),
      Rule({","}, 0, "}", FALSE, FALSE, "tail"),
      Rule({","}, 0, ",", TRUE, FALSE, "head"),
      Rule({"{"}, 0, ",", FALSE, FALSE, "head"),
      Rule({"["}, 0, ",", FALSE, FALSE, "head")>>

\* C13: for every candidate text, _fix_json returns the result of the rules
\* a to m of the specification applied in that order to the trimmed text,
\* each under the match condition the specification gives it.
C13_RuleChainAsSpecified ==
    (probe.fn = "_fix_json" /\ probe.done) =>
        probe.ret = ApplyRules(RulesAsSpecified, 1, strip(probe.arg))

(***************************************************************************)
(* The fence strip of analyze_topics applied on its own to texts of at     *)
(* most MaxFenceParts fragments.                                           *)
(***************************************************************************)
MaxFenceParts == 4

FenceParts == {"~~~", "~~~json", "~", "json", "x", " ", "\n"}

RECURSIVE FenceConcats(_)
FenceConcats(n) ==
    IF n = 0 THEN {""}
    ELSE LET shorter == FenceConcats(n - 1)
         IN  shorter \cup {b \o p : b \in shorter, p \in FenceParts}

FenceInputs == FenceConcats(MaxFenceParts)

InitFence ==
    /\ Idle
    /\ probe \in {[fn |-> "strip_fence", arg |-> t, done |-> FALSE, ret |-> ""] :
                    t \in FenceInputs}

\* lines 106-114 on message.content[0].text
ApplyFence ==
    /\ probe.fn = "strip_fence"
    /\ ~probe.done
    /\ probe' = [probe EXCEPT !.ret = strip_fence(probe.arg), !.done = TRUE]
    /\ UNCHANGED pipeVars

NextFence == ApplyFence

SpecFence == InitFence /\ [][NextFence]_vars

\* the number of characters of the leading marker of the trimmed text t
LeadLen(t) ==
    IF Len(t) >= 7 /\ SubSeq(t, 1, 7) = FenceJson THEN 7
    ELSE IF Len(t) >= 3 /\ SubSeq(t, 1, 3) = Fence THEN 3
    ELSE 0

\* the number of characters of the trailing marker of what the leading
\* marker left of t
TrailLen(t) ==
    IF Len(t) - LeadLen(t) >= 3 /\ SubSeq(t, Len(t) - 2, Len(t)) = Fence THEN 3
    ELSE 0

\* C14: the fence strip trims the text, drops a leading ```json marker or
\* else a leading ``` marker, drops a trailing ``` marker of what is left
\* whether or not a leading one was dropped, and trims again; a text with
\* no leading and no trailing marker is only trimmed.
C14_FenceStrip ==
    (probe.fn = "strip_fence" /\ probe.done) =>
        LET t == strip(probe.arg)
        IN  /\ probe.ret = strip(SubSeq(t, LeadLen(t) + 1, Len(t) - TrailLen(t)))
            /\ probe.ret = strip(probe.ret)
            /\ (LeadLen(t) = 0 /\ TrailLen(t) = 0) => probe.ret = t
            /\ (~startswith(t, Fence) /\ ~endswith(t, Fence)) => probe.ret = strip(probe.arg)

\* a text with a blank, the json marker, a body and the closing marker
C14_BothMarkersDropped ==
    /\ probe.fn = "strip_fence"
    /\ probe.done
    /\ probe.arg = " ~~~jsonx~~~"
    /\ probe.ret = "x"

\* the strict parse of a text
Parse(text) == json_loads(text).val

Repaired ==
    /\ pc \in {"report", "debug_extracted", "debug_text"}
    /\ stages # <<>>
    /\ stages[Len(stages)] \in {"repair:ok", "repair:fail"}

\* the first character of a quoted word, after its opening quote
FirstOf(q) == At(q, 2)

\* C16: when a record's closing '}' is followed, with or without whitespace,
\* by a quoted string whose first character is a letter or an underscore,
\* the repair puts a comma between the two; no comma is put before a quoted
\* string that starts otherwise. The response
\* [{"rank":1,"title":"A"} "extra"] is rewritten to
\* [{"rank":1,"title":"A"},"extra"] and analyze_topics returns the parse of
\* that text.
C16_CommaBeforeQuotedKey ==
    /\ Repaired =>
          \A r \in Records, g \in Gaps, q \in QuotedWords :
              response = "[" \o r \o g \o q \o "]" =>
                  /\ extracted = response
                  /\ FirstOf(q) \in KeyStart => Contains(fixed, "}," \o q \o "]")
                  /\ FirstOf(q) \notin KeyStart =>
                        /\ ~Contains(fixed, "}," \o q)
                        /\ Contains(fixed, "}" \o g \o q \o "]")
    /\ (Parsed /\ response = "[{\"rank\":1,\"title\":\"A\"} \"extra\"]") =>
          /\ stages = <<"strict:fail", "extract:fail", "repair:ok">>
          /\ fixed = "[{\"rank\":1,\"title\":\"A\"},\"extra\"]"
          /\ analysis = Parse("[{\"rank\":1,\"title\":\"A\"},\"extra\"]")

\* the example of the specification went through the repair
C16_ExtraRepaired ==
    /\ response = "[{\"rank\":1,\"title\":\"A\"} \"extra\"]"
    /\ HasStage("repair:ok")
    /\ analysis = JArr(<<JObj(("rank" :> JNum(1)) @@ ("title" :> JStr("A"))), JStr("extra")>>)

\* C17: an array text whose only defect is a comma, with or without
\* whitespace after it, directly before the closing ']' or '}' is repaired
\* to the same text without that comma, and analyze_topics returns the parse
\* of that text; [1,2,3,] gives [1,2,3].
C17_TrailingCommaRemoved ==
    Parsed =>
        /\ \A e \in Elements, g \in Gaps :
              response = "[" \o e \o "," \o g \o "]" =>
                  /\ stages = <<"strict:fail", "extract:fail", "repair:ok">>
                  /\ fixed = "[" \o e \o "]"
                  /\ analysis = Parse("[" \o e \o "]")
        /\ \A g \in Gaps :
              response = "[{\"rank\":1," \o g \o "}]" =>
                  /\ fixed = "[{\"rank\":1}]"
                  /\ analysis = Parse("[{\"rank\":1}]")

\* the text the repair worked on: the extracted span, else the whole text
Candidate == IF extracted # "" THEN extracted ELSE response_text

\* the candidate as rule (l) finds it, after the substitutions before it
BeforeCommas == ApplyRules(SubSeq(FixRules, 1, 12), 1, strip(Candidate))

RECURSIVE Squeeze(_)
\* s with every comma that directly follows a comma left out
Squeeze(s) ==
    IF Len(s) < 2 THEN s
    ELSE IF At(s, 1) = "," /\ At(s, 2) = "," THEN Squeeze(Tail(s))
    ELSE At(s, 1) \o Squeeze(Tail(s))

RECURSIVE Skeleton(_)
\* s without its commas and its whitespace
Skeleton(s) ==
    IF Len(s) = 0 THEN ""
    ELSE (IF At(s, 1) \in PySpace \cup {","} THEN "" ELSE At(s, 1)) \o Skeleton(Tail(s))

\* C18: rule (l) leaves one comma in the place of every run of two or more
\* commas of the candidate text and changes nothing else but the whitespace
\* inside such a run; the response [1,,2] gives [1,2].
C18_CommaRunsCollapsed ==
    /\ Repaired =>
          LET pre == BeforeCommas
              post == re_sub(RuleCommas, pre)
          IN  /\ ~Contains(post, ",,")
              /\ Skeleton(post) = Skeleton(pre)
              /\ (\A i \in 1..Len(pre) : At(pre, i) \notin PySpace) => post = Squeeze(pre)
              /\ fixed = ApplyRules(<<RuleLeadObj, RuleLeadArr>>, 1, post)
    /\ (Parsed /\ response = "[1,,2]") =>
          /\ stages = <<"strict:fail", "extract:fail", "repair:ok">>
          /\ fixed = "[1,2]"
          /\ analysis = JArr(<<JNum(1), JNum(2)>>)

\* the example of the specification went through the repair
C18_DoubleCommaRepaired ==
    /\ response = "[1,,2]"
    /\ HasStage("repair:ok")
    /\ fixed = "[1,2]"
    /\ analysis = JArr(<<JNum(1), JNum(2)>>)

\* the response is prose: no bracket, brace or quote in it, and no JSON
PureProse ==
    /\ \A i \in 1..Len(response) : At(response, i) \notin {"[", "]", "{", "}", "\""}
    /\ ~json_loads(strip_fence(response)).ok

\* C19: for a response of pure prose the extraction finds no span, the
\* rules are applied to the whole fence-stripped text, the final parse
\* fails, a debug file holding that text and the repaired text is written,
\* and the structural-parse error reaches the caller.
C19_ProseEndsInParseError ==
    (pc = "done" /\ stages # <<>> /\ PureProse) =>
        /\ stages = <<"strict:fail", "extract:none", "repair:fail", "debug">>
        /\ fixed = _fix_json(response_text)
        /\ \E n \in DebugFiles :
              /\ Contains(dataDir[n].text, response_text)
              /\ Contains(dataDir[n].text, fixed)
        /\ exc.type = "JSONDecodeError"

\* the span was extracted, and neither it nor its repaired form parsed
SpanUnparsable ==
    /\ Len(stages) >= 3
    /\ SubSeq(stages, 1, 3) = <<"strict:fail", "extract:fail", "repair:fail">>

\* C20: when a span was extracted and neither the span nor its repaired
\* form parses, the debug file written holds the full response text as
\* received, the extracted span and the repaired span, and the parse error
\* of the repaired span reaches the caller.
C20_ThreeBlocks ==
    (pc = "done" /\ SpanUnparsable /\ DebugFiles # {}) =>
        /\ \A n \in DebugFiles :
              /\ Contains(dataDir[n].text, response)
              /\ Contains(dataDir[n].text, extracted)
              /\ Contains(dataDir[n].text, fixed)
        /\ exc = [type |-> "JSONDecodeError", from |-> "e3"]

(***************************************************************************)
(* get_latest_data_file on its own, in data directories that hold raw      *)
(* files of several dates and sources and files that are not raw files.    *)
(***************************************************************************)
\* every file has its own number of topics, so that the topics loaded tell
\* which file was read
LoaderFiles ==
    {RawFile("weibo", "20251231_235959", 1),
     RawFile("weibo", "20260101_000000", 2),
     RawFile("weibo", "20260101_120000", 3),
     RawFile("douyin", "20260301_000000", 4),
     RawFile("xweibo", "20270101_000000", 5),
     [name |-> "weibo_analysis_20280101_000000.json",
      content |-> [kind |-> "json", value |-> NoValue]]}

InitLoad ==
    /\ source \in Sources
    /\ config = DEFAULT_CONFIG
    /\ dataDir \in {DirOf(fs) : fs \in SUBSET LoaderFiles}
    /\ pc = "start"
    /\ topics = <<>>
    /\ calls = 0
    /\ response = ""
    /\ response_text = ""
    /\ extracted = ""
    /\ fixed = ""
    /\ analysis = NoValue
    /\ stages = <<>>
    /\ exc = NoExc
    /\ rc = -1
    /\ probe = NoProbe

NextLoad == GetLatestDataFile

SpecLoad == InitLoad /\ [][NextLoad]_vars

\* the raw-topics files of src in the data directory
RawOf(src) ==
    {n \in DOMAIN dataDir :
        /\ dataDir[n].kind = "raw"
        /\ startswith(n, src \o "_raw_")
        /\ endswith(n, ".json")}

\* the date and the time of day in the name of a raw file of src, as numbers
DateOf(src, n) == IntOf(SubSeq(n, Len(src) + 6, Len(src) + 13), 0)
TimeOf(src, n) == IntOf(SubSeq(n, Len(src) + 15, Len(src) + 20), 0)

\* a was written after b
MoreRecent(src, a, b) ==
    \/ DateOf(src, a) > DateOf(src, b)
    \/ DateOf(src, a) = DateOf(src, b) /\ TimeOf(src, a) > TimeOf(src, b)

\* C21: the file loaded is a raw file of the active source, its name is the
\* greatest of them in string order and it is the most recent of them; a
\* file of another source or a file that is no raw file is never loaded;
\* with no raw file of the source nothing is loaded.
C21_LatestOfSource ==
    pc # "start" =>
        IF RawOf(source) = {}
        THEN topics = <<>> /\ exc.type = "FileNotFoundError"
        ELSE /\ exc = NoExc
             /\ \E n \in RawOf(source) :
                   /\ topics = dataDir[n].topics
                   /\ \A o \in RawOf(source) \ {n} :
                         LexLess(o, n) /\ MoreRecent(source, n, o)

\* three raw files of weibo next to a later file of douyin: the file of
\* noon, 1 January 2026 was loaded
C21_NoonFileLoaded ==
    /\ pc = "call"
    /\ source = "weibo"
    /\ Cardinality(RawOf("weibo")) = 3
    /\ RawOf("douyin") # {}
    /\ topics = <<1, 2, 3>>

(***************************************************************************)
(* Two runs for one source write index_{source}.html of one data           *)
(* directory, generate_html_report lines 427-430.  open(path, 'w')         *)
(* truncates the file and gives the run a file offset of its own; the      *)
(* buffered f.write and the close at the end of the with block hand the    *)
(* page to the file in one or more writes at that offset.  The runs are    *)
(* separate processes and nothing orders their steps.                      *)
(***************************************************************************)
Runs == {1, 2}

\* the longest page, in blocks written at once
MaxPage == 3

\* the page of run r: len blocks, each its own
PageOf(r, len) == [k \in 1..len |-> <<r, k>>]

\* the content of a hole left by a write beyond the end of the file
Nul == <<0, 0>>

\* the file after block b is written at offset off
WriteAt(file, off, b) ==
    LET n == IF Len(file) > off + 1 THEN Len(file) ELSE off + 1
    IN  [i \in 1..n |-> IF i = off + 1 THEN b
                        ELSE IF i <= Len(file) THEN file[i] ELSE Nul]

InitRace ==
    /\ Idle
    /\ \E l1 \in 1..MaxPage, l2 \in 1..MaxPage :
          probe = [len |-> <<l1, l2>>, file |-> <<>>,
                   at |-> <<"ready", "ready">>, off |-> <<0, 0>>, last |-> 0]

\* with open(index_path, 'w', encoding='utf-8') as f:
OpenIndex(r) ==
    /\ probe.at[r] = "ready"
    /\ probe' = [probe EXCEPT !.at[r] = "open", !.file = <<>>]
    /\ UNCHANGED pipeVars

\* f.write(html_content), one block reaching the file
WriteIndexBlock(r) ==
    /\ probe.at[r] = "open"
    /\ probe.off[r] < probe.len[r]
    /\ probe' = [probe EXCEPT
                   !.file = WriteAt(probe.file, probe.off[r],
                                    PageOf(r, probe.len[r])[probe.off[r] + 1]),
                   !.off[r] = probe.off[r] + 1,
                   !.last = r]
    /\ UNCHANGED pipeVars

\* the end of the with block, all blocks written
CloseIndex(r) ==
    /\ probe.at[r] = "open"
    /\ probe.off[r] = probe.len[r]
    /\ probe' = [probe EXCEPT !.at[r] = "closed"]
    /\ UNCHANGED pipeVars

NextRace == \E r \in Runs : OpenIndex(r) \/ WriteIndexBlock(r) \/ CloseIndex(r)

SpecRace == InitRace /\ [][NextRace]_vars

\* C22: when both runs have closed the index file, it holds the whole page
\* of the run that wrote to it last and nothing else.
C22_LastWriterWins ==
    (\A r \in Runs : probe.at[r] = "closed") =>
        probe.file = PageOf(probe.last, probe.len[probe.last])

(***************************************************************************)
(* ConfigLoader.load: the defaults, deep-merged with the YAML file when    *)
(* there is one, then the four environment overrides.  A configuration     *)
(* value is a mapping from keys to values, or a scalar, or YAML's null.    *)
(***************************************************************************)
CDict(f) == [t |-> "dict", v |-> f]
CInt(n) == [t |-> "int", v |-> n]
CStr(s) == [t |-> "str", v |-> s]
CNone == [t |-> "none"]

\* DEFAULT_CONFIG with the sections the environment can override; of each
\* section one key that it cannot
ConfigDefaults ==
    ("api" :> CDict("tianapi" :> CDict(("max_retries" :> CInt(3)) @@
                                       ("key" :> CStr("")))))
    @@ ("analysis" :> CDict(("topic_count" :> CInt(DefaultTopicCount)) @@
                            ("search_delay" :> CInt(2))))
    @@ ("paths" :> CDict(("data_dir" :> CStr("data")) @@
                         ("timestamp_format" :> CStr("%Y%m%d_%H%M%S"))))
    @@ ("logging" :> CDict(("level" :> CStr("INFO")) @@
                           ("file" :> CStr("logs/skill.log"))))

RECURSIVE _deep_merge(_, _)
_deep_merge(base, override) ==
    [key \in DOMAIN base \cup DOMAIN override |->
        IF key \notin DOMAIN override THEN base[key]
        ELSE IF /\ key \in DOMAIN base
                /\ base[key].t = "dict"
                /\ override[key].t = "dict"
             THEN CDict(_deep_merge(base[key].v, override[key].v))
             ELSE override[key]]

LowerCase == "abcdefghijklmnopqrstuvwxyz"
UpperCase == "ABCDEFGHIJKLMNOPQRSTUVWXYZ"

\* str.upper
RECURSIVE upper(_)
upper(s) ==
    IF Len(s) = 0 THEN ""
    ELSE LET c == SubSeq(s, 1, 1)
             i == IndexOf(LowerCase, At(s, 1), 1)
         IN  (IF i > 0 THEN SubSeq(UpperCase, i, i) ELSE c)
             \o upper(Tail(s))

\* str.isdigit
isdigit(s) == Len(s) > 0 /\ \A i \in 1..Len(s) : At(s, i) \in Digits

\* os.getenv gives None for a variable that is not set
Unset == [set |-> FALSE]
EnvVar(s) == [set |-> TRUE, v |-> s]

\* if value: -- neither None nor the empty string
Given(e) == e.set /\ e.v # ""

\* c[section][key] = val, where c is a result of the steps before
SetItem(c, section, key, val) ==
    IF ~c.ok THEN c
    ELSE IF c.config[section].t # "dict" THEN [ok |-> FALSE, exc |-> "TypeError"]
    ELSE [ok |-> TRUE,
          config |-> [c.config EXCEPT
                         ![section] = CDict((key :> val) @@ c.config[section].v)]]

\* config["api"]["tianapi"]["key"] = api_key
SetApiKey(c, val) ==
    IF ~c.ok THEN c
    ELSE IF c.config["api"].t # "dict" THEN [ok |-> FALSE, exc |-> "TypeError"]
    ELSE IF "tianapi" \notin DOMAIN c.config["api"].v
         THEN [ok |-> FALSE, exc |-> "KeyError"]
    ELSE IF c.config["api"].v["tianapi"].t # "dict"
         THEN [ok |-> FALSE, exc |-> "TypeError"]
    ELSE [ok |-> TRUE,
          config |-> [c.config EXCEPT
                         !["api"] = CDict(
                            ("tianapi" :> CDict(("key" :> val)
                                                @@ c.config["api"].v["tianapi"].v))
                            @@ c.config["api"].v)]]

_load_env_overrides(base, env) ==
    LET c0 == [ok |-> TRUE, config |-> base]
        c1 == IF Given(env.TIANAPI_KEY)
              THEN SetApiKey(c0, CStr(env.TIANAPI_KEY.v)) ELSE c0
        c2 == IF Given(env.TOPIC_COUNT) /\ isdigit(env.TOPIC_COUNT.v)
              THEN SetItem(c1, "analysis", "topic_count",
                           CInt(IntOf(env.TOPIC_COUNT.v, 0)))
              ELSE c1
        c3 == IF Given(env.DATA_DIR)
              THEN SetItem(c2, "paths", "data_dir", CStr(env.DATA_DIR.v)) ELSE c2
        c4 == IF Given(env.LOG_LEVEL)
              THEN SetItem(c3, "logging", "level", CStr(upper(env.LOG_LEVEL.v)))
              ELSE c3
    IN  c4

\* no configuration file, or the mapping yaml.safe_load(f) or {} gives
NoFile == [exists |-> FALSE]
YamlFile(f) == [exists |-> TRUE, doc |-> f]

load(file, env) ==
    LET defaults == ConfigDefaults
        merged == IF file.exists THEN _deep_merge(defaults, file.doc) ELSE defaults
    IN  _load_env_overrides(merged, env)

\* what a YAML file may say of a section: nothing, some of its keys, or the
\* section name with nothing beneath it (null)
YamlApi ==
    {<<>>,
     "api" :> CDict("tianapi" :> CDict("key" :> CStr("filekey"))),
     "api" :> CDict("tianapi" :> CDict("max_retries" :> CInt(1))),
     "api" :> CDict("tianapi" :> CNone)}
YamlAnalysis ==
    {<<>>,
     "analysis" :> CDict("topic_count" :> CInt(5)),
     "analysis" :> CDict("search_delay" :> CInt(9)),
     "analysis" :> CNone}
YamlPaths ==
    {<<>>,
     "paths" :> CDict("data_dir" :> CStr("out")),
     "paths" :> CNone}
YamlLogging ==
    {<<>>,
     "logging" :> CDict("level" :> CStr("WARNING"))}

YamlFiles ==
    {NoFile} \cup
    {YamlFile(a @@ b @@ c @@ d) :
        a \in YamlApi, b \in YamlAnalysis, c \in YamlPaths, d \in YamlLogging}

Environments ==
    [TIANAPI_KEY : {Unset, EnvVar("envkey")},
     TOPIC_COUNT : {Unset, EnvVar(""), EnvVar("7"), EnvVar("x7")},
     DATA_DIR    : {Unset, EnvVar("env")},
     LOG_LEVEL   : {Unset, EnvVar("debug")}]

InitConfig ==
    /\ Idle
    /\ \E f \in YamlFiles, e \in Environments :
          probe = [file |-> f, env |-> e, at |-> "new"]

\* ConfigLoader.load, the first call
LoadConfig ==
    /\ probe.at = "new"
    /\ probe' = [file |-> probe.file, env |-> probe.env, at |-> "loaded",
                 result |-> load(probe.file, probe.env)]
    /\ UNCHANGED pipeVars

NextConfig == LoadConfig

SpecConfig == InitConfig /\ [][NextConfig]_vars


\* the value at a path of keys, Missing where the path leads nowhere
Missing == [t |-> "missing"]

RECURSIVE Lookup(_, _)
Lookup(val, path) ==
    IF path = <<>> THEN val
    ELSE IF val.t = "dict" /\ Head(path) \in DOMAIN val.v
         THEN Lookup(val.v[Head(path)], Tail(path))
         ELSE Missing

LeafPaths ==
    {<<"api", "tianapi", "key">>, <<"api", "tianapi", "max_retries">>,
     <<"analysis", "topic_count">>, <<"analysis", "search_delay">>,
     <<"paths", "data_dir">>, <<"paths", "timestamp_format">>,
     <<"logging", "level">>, <<"logging", "file">>}

\* the override the environment holds for a key: the variable is set, not
\* empty, and for the topic count a number
Override(env, path) ==
    IF path = <<"api", "tianapi", "key">> /\ Given(env.TIANAPI_KEY)
        THEN CStr(env.TIANAPI_KEY.v)
    ELSE IF /\ path = <<"analysis", "topic_count">>
            /\ Given(env.TOPIC_COUNT)
            /\ env.TOPIC_COUNT.v = "7"
        THEN CInt(7)
    ELSE IF path = <<"paths", "data_dir">> /\ Given(env.DATA_DIR)
        THEN CStr(env.DATA_DIR.v)
    ELSE IF path = <<"logging", "level">> /\ env.LOG_LEVEL = EnvVar("debug")
        THEN CStr("DEBUG")
    ELSE Missing

\* the file gives a section of the key, or one above it, a value that is no
\* mapping: that value is the file's value of the section as a whole
Replaced(file, path) ==
    /\ file.exists
    /\ \E i \in 1..(Len(path) - 1) :
          Lookup(CDict(file.doc), SubSeq(path, 1, i)).t \notin {"dict", "missing"}

\* the value the precedence chain gives a key
Chain(file, env, path) ==
    IF Override(env, path) # Missing THEN Override(env, path)
    ELSE IF file.exists /\ Lookup(CDict(file.doc), path) # Missing
        THEN Lookup(CDict(file.doc), path)
    ELSE IF Replaced(file, path) THEN Missing
    ELSE Lookup(CDict(ConfigDefaults), path)

\* C23: load returns a configuration, and the value of every key in it is
\* the environment override when one is set and accepted, else the value of
\* the YAML file when the file has one, else the default; a section of which
\* the file sets some keys keeps the defaults of its other keys.
C23_Precedence ==
    probe.at = "loaded" =>
        /\ probe.result.ok
        /\ \A path \in LeafPaths :
              Lookup(CDict(probe.result.config), path)
                  = Chain(probe.file, probe.env, path)

\* the part of C23 that holds: whenever load returns a configuration, the
\* value of every key in it is the value of the chain
C23_PrecedenceOfLoaded ==
    (probe.at = "loaded" /\ probe.result.ok) =>
        \A path \in LeafPaths :
            Lookup(CDict(probe.result.config), path)
                = Chain(probe.file, probe.env, path)


\* the number of repairs a run made
RepairCount == Cardinality({i \in 1..Len(stages) : StageRank(stages[i]) = 3})

Fetchers == {"HotSearchFetcher", "WeiboFetcher"}

\* the largest max_retries configured
MaxRetries == 3

PyNone == [t |-> "None", v |-> <<>>]

\* items of the API's result list
ApiItems ==
    {JObj(("word" :> JStr("a")) @@ ("hotnum" :> JNum(9))),
     JObj("title" :> JStr("b")),
     JStr("c")}

ApiLists == {<<>>} \cup {<<i>> : i \in ApiItems} \cup {<<i, j>> : i, j \in ApiItems}

\* the values of "result" in a response
ApiResults ==
    {JArr(l) : l \in ApiLists}
    \cup {JObj("list" :> JArr(l)) : l \in ApiLists}
    \cup {JObj("list" :> JLit("null")), JObj("total" :> JNum(0)),
          JLit("null"), JNum(0), JStr(""), JStr("ab")}

\* what response.json() gives
ApiData ==
    {JArr(<<>>),
     JObj(("code" :> JNum(250)) @@ ("msg" :> JStr("key error"))),
     JObj("code" :> JNum(200))}
    \cup {JObj(("code" :> JNum(200)) @@ ("result" :> r)) : r \in ApiResults}

\* what one requests.get gives: a timeout; another RequestException, that of
\* raise_for_status included; a body that is no JSON, where response.json()
\* raises the JSONDecodeError of requests (a RequestException) or that of
\* json, as the installed requests has it; or the decoded body
HttpOutcomes ==
    {[kind |-> "Timeout"], [kind |-> "RequestException"],
     [kind |-> "JSONDecodeError", of |-> "requests"],
     [kind |-> "JSONDecodeError", of |-> "json"]}
    \cup {[kind |-> "data", data |-> d] : d \in ApiData}

\* _validate_response of the fetcher
_validate_response(fetcher, data) ==
    IF data.t # "obj" THEN FALSE
    ELSE IF Get(data, "code", PyNone) # JNum(200) THEN FALSE
    ELSE IF "result" \notin DOMAIN data.v THEN FALSE
    ELSE IF fetcher = "HotSearchFetcher" THEN TRUE
    ELSE LET result == data.v["result"]
         IN  IF result.t = "obj"
             THEN "list" \in DOMAIN result.v /\ result.v["list"].t = "arr"
             ELSE result.t = "arr"

\* len(v) is defined
HasLen(v) == v.t \in {"arr", "obj", "str"}

\* what the loop does with the outcome of one request: return the data,
\* return None, or go on to the next attempt
Handle(fetcher, o, last) ==
    IF o.kind = "data"
    THEN IF ~_validate_response(fetcher, o.data)
         THEN IF last THEN "none" ELSE "next"
         ELSE IF HasLen(Get(o.data, "result", JArr(<<>>)))
              THEN "data"
              \* len() raises TypeError inside the try
              ELSE IF fetcher = "HotSearchFetcher" THEN "next" ELSE "raise"
    ELSE IF fetcher = "HotSearchFetcher" THEN "next"
    ELSE IF o.kind = "JSONDecodeError" /\ o.of = "json" THEN "none"
    ELSE "next"

process_topic(idx, item) ==
    [rank |-> idx,
     title |-> Get(item, "word", Get(item, "title",
                   Get(item, "hotword", JStr("?")))),
     hot_value |-> Get(item, "hotnum", Get(item, "hot",
                       Get(item, "hotwordnum", Get(item, "num", JStr("N/A"))))),
     url |-> Get(item, "url", JStr("")),
     description |-> Get(item, "desc", Get(item, "description",
                         Get(item, "hottag", JStr(""))))]

\* process_data: the processed record, or the exception of the loop
process_data(raw_data) ==
    LET r0 == Get(raw_data, "result", JArr(<<>>))
        result == IF r0.t = "obj" THEN Get(r0, "list", JArr(<<>>)) ELSE r0
    IN  IF result.t = "arr"
        THEN IF \E i \in 1..Len(result.v) : result.v[i].t # "obj"
             THEN [ok |-> FALSE, exc |-> "AttributeError"]
             ELSE [ok |-> TRUE,
                   topics |-> [i \in 1..Len(result.v) |->
                                  process_topic(i, result.v[i])],
                   total_count |-> Len(result.v)]
        ELSE IF result.t = "str"
        THEN IF result.v[1] = ""
             THEN [ok |-> TRUE, topics |-> <<>>, total_count |-> 0]
             ELSE [ok |-> FALSE, exc |-> "AttributeError"]
        ELSE IF result.t = "obj"
        THEN IF DOMAIN result.v = {}
             THEN [ok |-> TRUE, topics |-> <<>>, total_count |-> 0]
             ELSE [ok |-> FALSE, exc |-> "AttributeError"]
        ELSE [ok |-> FALSE, exc |-> "TypeError"]

NotYet == [ok |-> FALSE, exc |-> ""]

InitFetch ==
    /\ Idle
    /\ \E f \in Fetchers, k \in {"", "k"}, m \in 0..MaxRetries :
          probe = [fetcher |-> f, api_key |-> k, max_retries |-> m,
                   at |-> "run", attempt |-> 0, log |-> <<>>,
                   raw_data |-> PyNone, processed |-> NotYet,
                   file |-> NotYet, rc |-> -1, raised |-> ""]

\* run: if not self.check_api_key(): return 1
CheckApiKey ==
    /\ probe.at = "run"
    /\ probe' = IF probe.api_key = ""
                THEN [probe EXCEPT !.at = "done", !.rc = 1]
                ELSE [probe EXCEPT !.at = "fetch"]
    /\ UNCHANGED pipeVars

\* one pass of the loop of fetch_hot_search: the request, and what follows
\* from its outcome
FetchAttempt ==
    /\ probe.at = "fetch"
    /\ probe.attempt < probe.max_retries
    /\ \E o \in HttpOutcomes :
          LET last == ~(probe.attempt < probe.max_retries - 1)
              h == Handle(probe.fetcher, o, last)
              get == [e |-> "get", attempt |-> probe.attempt,
                      valid |-> IF o.kind = "data"
                                THEN _validate_response(probe.fetcher, o.data)
                                ELSE FALSE,
                      data |-> IF o.kind = "data" THEN o.data ELSE PyNone]
              sleep == [e |-> "sleep", seconds |-> 2 ^ probe.attempt]
          IN  probe' =
                CASE h = "data" ->
                        [probe EXCEPT !.log = Append(@, get),
                                      !.at = "fetched", !.raw_data = o.data]
                  [] h = "none" ->
                        [probe EXCEPT !.log = Append(@, get), !.at = "fetched"]
                  [] h = "raise" ->
                        [probe EXCEPT !.log = Append(@, get),
                                      !.at = "done", !.raised = "TypeError"]
                  [] h = "next" ->
                        [probe EXCEPT
                            !.log = IF last THEN Append(@, get)
                                    ELSE Append(Append(@, get), sleep),
                            !.attempt = @ + 1]
    /\ UNCHANGED pipeVars

\* the loop is over: return None
FetchExhausted ==
    /\ probe.at = "fetch"
    /\ probe.attempt >= probe.max_retries
    /\ probe' = [probe EXCEPT !.at = "fetched"]
    /\ UNCHANGED pipeVars

\* run: if raw_data is None: return 1; processed_data = process_data(raw_data)
ProcessData ==
    /\ probe.at = "fetched"
    /\ probe' =
          IF probe.raw_data = PyNone
          THEN [probe EXCEPT !.at = "done", !.rc = 1]
          ELSE LET p == process_data(probe.raw_data)
               IN  IF p.ok
                   THEN [probe EXCEPT !.at = "save", !.processed = p]
                   ELSE [probe EXCEPT !.at = "done", !.raised = p.exc]
    /\ UNCHANGED pipeVars

\* run: save_to_json writes the file; return 0
SaveToJson ==
    /\ probe.at = "save"
    /\ probe' = [probe EXCEPT !.at = "done", !.file = probe.processed, !.rc = 0]
    /\ UNCHANGED pipeVars

\* run: save_to_json raises; return 1
SaveFails ==
    /\ probe.at = "save"
    /\ probe' = [probe EXCEPT !.at = "done", !.rc = 1]
    /\ UNCHANGED pipeVars

NextFetch ==
    \/ CheckApiKey
    \/ FetchAttempt
    \/ FetchExhausted
    \/ ProcessData
    \/ SaveToJson
    \/ SaveFails

SpecFetch == InitFetch /\ [][NextFetch]_vars


\* the requests made so far, and whether fetch_hot_search has returned
Requests == {i \in 1..Len(probe.log) : probe.log[i].e = "get"}
Returned == probe.at \in {"fetched", "save", "done"} /\ probe.raised = ""
               /\ probe.api_key # ""

\* C25: fetch_hot_search makes at most max_retries requests; the first
\* response that passes _validate_response is returned with no request and
\* no sleep after it; a sleep follows attempt k only when attempt k + 1
\* comes, and lasts 2^k seconds; the call returns None when no response
\* passed the validation, with max_retries = 0 as well.
C25_BoundedRetries ==
    /\ Cardinality(Requests) <= probe.max_retries
    /\ \A i \in Requests :
          probe.log[i].valid =>
              /\ i = Len(probe.log)
              /\ probe.at # "fetch"
              /\ probe.raw_data = probe.log[i].data
    /\ \A i \in 1..Len(probe.log) :
          probe.log[i].e = "sleep" =>
              /\ i > 1
              /\ probe.log[i - 1].e = "get"
              /\ probe.log[i].seconds = 2 ^ probe.log[i - 1].attempt
              /\ probe.log[i - 1].attempt < probe.max_retries - 1
              /\ Returned => (i < Len(probe.log) /\ probe.log[i + 1].e = "get")
    /\ (Returned /\ \A i \in Requests : ~probe.log[i].valid) =>
          probe.raw_data = PyNone

\* the same of WeiboFetcher alone
C25_BoundedRetriesWeibo == probe.fetcher = "WeiboFetcher" => C25_BoundedRetries


(***************************************************************************)
(* cleanup_temp.py: delete the tmpclaude-* files of the project root but   *)
(* the newest keep_count.                                                  *)
(***************************************************************************)
\* the largest keep_count given on the command line (int(sys.argv[1]) takes
\* a sign)
MaxKeep == 2

\* entries of the project root: two of the temporary files share a
\* modification time
RootEntries ==
    {[name |-> "tmpclaude-a", kind |-> "file", mtime |-> 1],
     [name |-> "tmpclaude-b", kind |-> "file", mtime |-> 2],
     [name |-> "tmpclaude-c", kind |-> "file", mtime |-> 2],
     [name |-> "tmpclaude-d", kind |-> "file", mtime |-> 3],
     [name |-> "tmpclaude-e", kind |-> "dir", mtime |-> 0],
     [name |-> "xtmpclaude-f", kind |-> "file", mtime |-> 0],
     [name |-> "notes.txt", kind |-> "file", mtime |-> 0]}

\* item.is_file() and item.name.startswith("tmpclaude-")
IsTemp(item) == item.kind = "file" /\ startswith(item.name, "tmpclaude-")

\* get_temp_files: the temporary files, newest first; files of one
\* modification time stay in the order iterdir() gave them, which is any
get_temp_files(root) ==
    LET temp == {item \in root : IsTemp(item)}
        n == Cardinality(temp)
    IN  {order \in [1..n -> temp] :
            /\ \A i, j \in 1..n : i # j => order[i] # order[j]
            /\ \A i, j \in 1..n : i < j => order[i].mtime >= order[j].mtime}

\* seq[k:] of Python, k of either sign
SliceFrom(seq, k) ==
    LET n == Len(seq)
        b == IF k >= 0 THEN (IF k < n THEN k ELSE n)
             ELSE (IF n + k > 0 THEN n + k ELSE 0)
    IN  SubSeq(seq, b + 1, n)

InitCleanup ==
    /\ Idle
    /\ \E root \in SUBSET RootEntries, k \in (0 - MaxKeep)..MaxKeep,
          locked \in {{}, {"tmpclaude-a"}} :
          probe = [before |-> root, root |-> root, keep_count |-> k,
                   locked |-> locked, at |-> "new", deleted |-> -1, rc |-> -1]

\* run_cleanup: cleanup_temp_files(keep_count); unlink fails on a file that
\* is locked
RunCleanup ==
    /\ probe.at = "new"
    /\ \E temp_files \in get_temp_files(probe.root) :
          LET total_count == Len(temp_files)
              files_to_delete == SliceFrom(temp_files, probe.keep_count)
              gone == {files_to_delete[i] : i \in 1..Len(files_to_delete)}
                          \ {item \in probe.root : item.name \in probe.locked}
              deleted == IF total_count = 0 \/ total_count <= probe.keep_count
                         THEN {} ELSE gone
          IN  probe' = [probe EXCEPT !.at = "done",
                                     !.root = probe.root \ deleted,
                                     !.deleted = Cardinality(deleted),
                                     !.rc = 0]
    /\ UNCHANGED pipeVars

NextCleanup == RunCleanup

SpecCleanup == InitCleanup /\ [][NextCleanup]_vars

\* the number of files to keep: keep_count, all when there are fewer, none
\* when keep_count is below 0
KeepOf(k, total) == IF k < 0 THEN 0 ELSE IF k < total THEN k ELSE total

\* C26: with no deletion failing, the temporary files left are the
\* keep_count most recently modified (all of them when there are fewer), the
\* others are deleted, every entry that is no temporary file is untouched,
\* and the number returned is the number of files deleted; for every integer
\* keep_count.
C26_KeepsNewest ==
    (probe.at = "done" /\ probe.locked = {}) =>
        LET was == {item \in probe.before : IsTemp(item)}
            left == {item \in probe.root : IsTemp(item)}
        IN  /\ probe.root \subseteq probe.before
            /\ Cardinality(left) = KeepOf(probe.keep_count, Cardinality(was))
            /\ \A a \in left, b \in was \ left : a.mtime >= b.mtime
            /\ {item \in probe.before : ~IsTemp(item)}
                   = {item \in probe.root : ~IsTemp(item)}
            /\ probe.deleted = Cardinality(was \ left)

\* the same with keep_count at least 0
C26_KeepsNewestOfNatural == probe.keep_count >= 0 => C26_KeepsNewest


\* s holds a comma followed, with or without whitespace between, by c
CommaBefore(s, c) ==
    \E i \in 1..Len(s) : \E j \in (i + 1)..Len(s) :
        /\ At(s, i) = ","
        /\ At(s, j) = c
        /\ \A k \in (i + 1)..(j - 1) : At(s, k) \in PySpace

\* C27: for every input, the text _fix_json returns holds no comma,
\* possibly followed by whitespace, directly before ']' or '}', and no two
\* commas next to each other.
C27_NoDanglingComma ==
    (probe.fn = "_fix_json" /\ probe.done) =>
        /\ ~CommaBefore(probe.ret, "]")
        /\ ~CommaBefore(probe.ret, "}")
        /\ ~Contains(probe.ret, ",,")


(***************************************************************************)
(* The legacy parser: WeiboAnalyzer.analyze_topics of analyze_with_claude, *)
(* lines 94-117, on the text of a completion.                              *)
(***************************************************************************)
legacy_analyze_topics(completion) ==
    LET stripped == strip_fence(completion)
        r == json_loads(stripped)
        m == search_span(stripped)
    IN  IF r.ok THEN [returned |-> TRUE, val |-> r.val]
        ELSE IF m.found
             THEN IF json_loads(m.span).ok
                  THEN [returned |-> TRUE, val |-> json_loads(m.span).val]
                  ELSE [returned |-> FALSE, exc |-> "JSONDecodeError"]
             ELSE [returned |-> FALSE, exc |-> "JSONDecodeError"]

\* the parse stages of TrendAnalyzer.analyze_topics are over
ParseOver == stages # <<>> /\ pc \notin {"strict", "extract"}

\* C28: on every completion for which the legacy parser returns a value,
\* TrendAnalyzer.analyze_topics returns the same value, without a repair and
\* without a debug file.
C28_RefinesLegacy ==
    (ParseOver /\ legacy_analyze_topics(response).returned) =>
        /\ pc \in {"report", "index", "json", "done"}
        /\ analysis = legacy_analyze_topics(response).val
        /\ ~HasStage("repair:ok") /\ ~HasStage("repair:fail")
        /\ ~HasStage("debug")
        /\ DebugFiles = {}

\* the legacy parser returned [1] by extraction of the bracket span, and so
\* did analyze_topics
C28_LegacyValueReturned ==
    /\ pc = "report"
    /\ stages = <<"strict:fail", "extract:ok">>
    /\ legacy_analyze_topics(response).returned
    /\ analysis = JArr(<<JNum(1)>>)
    /\ analysis = legacy_analyze_topics(response).val


(***************************************************************************)
(* generate_html_report on its own: the summary and the cards of the page, *)
(* for analyses of a few scored topics and grades as a config.yaml may set *)
(* them.                                                                   *)
(***************************************************************************)
\* the longest analysis rendered
MaxCards == 2

ScoredTopics ==
    {JObj("rank" :> JNum(1))}
    \cup {JObj(("rank" :> JNum(1)) @@ ("total_score" :> JNum(s))) :
             s \in {0, 55, 60, 79, 80, 85, 90, 100}}

RECURSIVE TopicLists(_)
TopicLists(n) ==
    IF n = 0 THEN {<<>>}
    ELSE TopicLists(n - 1)
         \cup {Append(l, t) : l \in TopicLists(n - 1), t \in ScoredTopics}

\* config['grades']: the defaults, or thresholds of a config.yaml
ConfiguredGrades ==
    {DEFAULT_CONFIG.grades,
     [excellent |-> 90, good |-> 60],
     [excellent |-> 80, good |-> 50],
     [excellent |-> 85, good |-> 55]}

InitRender ==
    /\ Idle
    /\ \E l \in TopicLists(MaxCards), g \in ConfiguredGrades :
          probe = [fn |-> "generate_html_report", analysis |-> JArr(l),
                   grades |-> g, done |-> FALSE, page |-> NoValue]

\* html_content of generate_html_report(analysis, timestamp)
RenderPage ==
    /\ probe.fn = "generate_html_report"
    /\ ~probe.done
    /\ probe' = [probe EXCEPT
                   !.page = html_content(probe.analysis, timestamp, source,
                                         probe.grades),
                   !.done = TRUE]
    /\ UNCHANGED pipeVars

NextRender == RenderPage

SpecRender == InitRender /\ [][NextRender]_vars

\* the number of cards of a class on the page
CardsOf(page, class) ==
    Cardinality({i \in 1..Len(page.cards) : page.cards[i].class = class})

\* C29: on every page the summary counts agree with the classes of the
\* cards: as many excellent and good topics counted as cards of the class,
\* the others average; no count is negative and the three add up to the
\* number of topics; for every analysis and all configured grades.
C29_SummaryMatchesCards ==
    (probe.fn = "generate_html_report" /\ probe.done) =>
        LET page == probe.page
        IN  /\ page.summary.excellent = CardsOf(page, "excellent")
            /\ page.summary.good = CardsOf(page, "good")
            /\ page.summary.average = CardsOf(page, "")
            /\ page.summary.excellent >= 0
            /\ page.summary.good >= 0
            /\ page.summary.average >= 0
            /\ page.summary.excellent + page.summary.good + page.summary.average
                   = Len(probe.analysis.v)

\* the same under the default grades
C29_SummaryMatchesCardsByDefault ==
    probe.grades = DEFAULT_CONFIG.grades => C29_SummaryMatchesCards


\* the raw-topics file of a run: ranks 1..n in the order of the response
RanksInOrder(file) ==
    /\ file.ok
    /\ file.total_count = Len(file.topics)
    /\ \A i \in 1..Len(file.topics) : file.topics[i].rank = i

\* C30: run of either fetcher never raises and returns 0 or 1, whatever
\* valid responses the API gives: 1 without a request when the API key is
\* missing, 1 when no valid response was fetched, 1 when saving fails, and
\* 0 only with the raw-topics file written, its topics ranked 1..n in the
\* order of the response and total_count = n.
C30_RunReturnsExitCode ==
    /\ probe.raised = ""
    /\ probe.at = "done" =>
          /\ probe.rc \in {0, 1}
          /\ probe.api_key = "" => (probe.rc = 1 /\ probe.log = <<>>)
          /\ probe.raw_data = PyNone => probe.rc = 1
          /\ probe.rc = 0 =>
                /\ RanksInOrder(probe.file)
                /\ probe.file = process_data(probe.raw_data)
          /\ (probe.processed.ok /\ ~probe.file.ok) => probe.rc = 1

\* the same for responses whose list holds records only
C30_RunReturnsExitCodeOfRecords ==
    (\A i \in 1..Len(probe.log) :
        (probe.log[i].e = "get" /\ probe.log[i].valid) =>
            LET p == process_data(probe.log[i].data) IN p.ok)
    => C30_RunReturnsExitCode

====
